---- MODULE Spec2Model ----
(***************************************************************************)
(* tree-db: grammar loading (loader.rs), the parallel exporter (export.rs) *)
(* and the sequential ingestor (ingest.rs), as one state machine.          *)
(***************************************************************************)
EXTENDS Integers, Sequences, FiniteSets, TLC

VARIABLES
    cmd,        \* the command line: [name, language]; name is "export", "ingest", or "loader" (the Loader driven directly)
    include,    \* the include list (-i), a sequence of directories
    modules,    \* the file system: what tree-sitter-<name>.<ext> is in each directory
    contents,   \* the file system: what each source path holds
    addr,       \* per entry, where the parser allocates the tree of its file
    roots,      \* the command line: the paths to search (`file`)
    walk,       \* files(): the entries the walker has still to yield
    command,    \* compile-grammar: the compiler command it has executed
    pc,         \* position of the main thread
    paths,      \* the classified entries, a sequence of [language, path]
    langsLeft,  \* languages.drain(): the names not yet preloaded
    grammars,   \* Loader.grammars: language name -> the directory its Library was opened from
    languages,  \* Loader.languages: the names with a Language handle
    handle,     \* IngestorConfig::run's `language`: the name whose handle the ingestor holds, or NoLang
    loaded,     \* per language name, how many Library values of it are open (the module is mapped)
    opens,      \* per language name, how many times Library::new succeeded
    invokes,    \* per language name, how many times the entry point tree_sitter_<name> ran
    calls,      \* number of Loader calls (preload, find_grammar) made so far
    lastCall,   \* the last preload call: its argument, its result, and what find_grammar did in it
    task,       \* per entry: the FileExporter (or the ingest loop) working on it
    ingestor,   \* Ingestor.nodes / locations / edges
    imported,   \* what import_relations has been handed so far, per relation
    result      \* the result of the run

vars == <<cmd, include, modules, contents, addr, roots, walk, command, pc, paths, langsLeft,
          grammars, languages, handle, loaded, opens, invokes, calls, lastCall, task, ingestor,
          imported, result>>

loaderVars == <<grammars, languages, loaded, opens, invokes, lastCall>>
envVars == <<cmd, include, modules, contents, addr, roots>>

(***************************************************************************)
(* Bounds                                                                  *)
(***************************************************************************)
MaxInclude == 2     \* longest include list
MaxFiles == 2       \* number of classified entries
MaxCalls == 3       \* Loader calls made when the Loader is driven directly

Dirs == {"d1", "d2"}
Langs == {"a", "b"}
NoLang == "-"
NoDir == "-"

\* What a directory holds under the name tree-sitter-<name>.<ext>:
\* nothing; a file dlopen rejects; a library without the symbol; a grammar.
Kinds == {"absent", "bad", "nosym", "good"}

RECURSIVE SeqsUpTo(_, _)
SeqsUpTo(S, n) ==
    IF n = 0 THEN {<<>>}
    ELSE LET shorter == SeqsUpTo(S, n - 1)
         IN  shorter \cup {Append(s, x) : s \in {t \in shorter : Len(t) = n - 1}, x \in S}

(***************************************************************************)
(* loader.rs                                                               *)
(***************************************************************************)

\* candidate.exists() for path.join("tree-sitter-<name>.<ext>")
candidate_exists(dir, name) == modules[<<dir, name>>] # "absent"

\* The loop of find_grammar from the i-th include directory on. `seen` counts
\* the candidates tested.
RECURSIVE find_grammar_from(_, _)
find_grammar_from(name, i) ==
    IF i > Len(include)
    THEN [ok |-> FALSE, dir |-> NoDir, seen |-> Len(include)]
    ELSE IF candidate_exists(include[i], name)
         THEN [ok |-> TRUE, dir |-> include[i], seen |-> i]
         ELSE find_grammar_from(name, i + 1)

\* A loop that keeps looking after a match and so returns the last one.
RECURSIVE find_grammar_last(_, _)
find_grammar_last(name, i) ==
    IF i > Len(include)
    THEN [ok |-> FALSE, dir |-> NoDir, seen |-> Len(include)]
    ELSE LET rest == find_grammar_last(name, i + 1)
         IN  IF rest.ok THEN rest
             ELSE IF candidate_exists(include[i], name)
                  THEN [ok |-> TRUE, dir |-> include[i], seen |-> Len(include)]
                  ELSE rest

find_grammar_mut(name) == find_grammar_last(name, 1)

\* Loader::find_grammar
find_grammar(name) == find_grammar_from(name, 1)

\* IngestorConfig::find_grammar: the same loop, over IngestorConfig.include
RECURSIVE ingest_find_grammar_from(_, _)
ingest_find_grammar_from(name, i) ==
    IF i > Len(include)
    THEN [ok |-> FALSE, dir |-> NoDir, seen |-> Len(include)]
    ELSE IF candidate_exists(include[i], name)
         THEN [ok |-> TRUE, dir |-> include[i], seen |-> i]
         ELSE ingest_find_grammar_from(name, i + 1)

IngestorConfig_find_grammar(name) == ingest_find_grammar_from(name, 1)

NoFind == [called |-> FALSE, ok |-> FALSE, dir |-> NoDir, seen |-> 0]
Found(f) == [called |-> TRUE, ok |-> f.ok, dir |-> f.dir, seen |-> f.seen]

Bump(f, name) == [f EXCEPT ![name] = @ + 1]
Insert(m, name, v) == [n \in DOMAIN m \cup {name} |-> IF n = name THEN v ELSE m[n]]

\* preload that calls the entry point whether or not the handle is cached.
preload_language_mut(name, g, ld, op, f) ==
    LET base == [grammars |-> g, languages |-> languages, loaded |-> ld, opens |-> op,
                 invokes |-> invokes, find |-> f, res |-> "Ok"]
    IN  IF modules[<<g[name], name>>] = "nosym"
        THEN [base EXCEPT !.res = "SymbolResolutionError"]
        ELSE [base EXCEPT !.languages = languages \cup {name},
                          !.invokes = Bump(invokes, name)]

\* preload that runs the entry point and returns Ok without inserting the
\* handle into Loader.languages.
preload_language_forget(name, g, ld, op, f) ==
    LET base == [grammars |-> g, languages |-> languages, loaded |-> ld, opens |-> op,
                 invokes |-> invokes, find |-> f, res |-> "Ok"]
    IN  IF name \notin languages
        THEN IF modules[<<g[name], name>>] = "nosym"
             THEN [base EXCEPT !.res = "SymbolResolutionError"]
             ELSE [base EXCEPT !.invokes = Bump(invokes, name)]
        ELSE base

\* Lines 51-63 of preload: `g`, `ld`, `op` are the caches and counters after
\* the first half, `f` what find_grammar did.
preload_language(name, g, ld, op, f) ==
    LET base == [grammars |-> g, languages |-> languages, loaded |-> ld, opens |-> op,
                 invokes |-> invokes, find |-> f, res |-> "Ok"]
    IN  IF name \notin languages
        THEN IF modules[<<g[name], name>>] = "nosym"
             THEN [base EXCEPT !.res = "SymbolResolutionError"]
             ELSE [base EXCEPT !.languages = languages \cup {name},
                               !.invokes = Bump(invokes, name)]
        ELSE base

\* preload that does not look into Loader.grammars and opens the module on
\* every call.
preload_reopen(name) ==
    LET f == find_grammar(name)
        failed == [grammars |-> grammars, languages |-> languages, loaded |-> loaded,
                   opens |-> opens, invokes |-> invokes, find |-> Found(f),
                   res |-> "GrammarNotFound"]
    IN  IF ~f.ok THEN failed
        ELSE IF modules[<<f.dir, name>>] = "bad"
             THEN [failed EXCEPT !.res = "ModuleLoadError"]
             ELSE preload_language(name, Insert(grammars, name, f.dir),
                                   Bump(loaded, name), Bump(opens, name), Found(f))

\* Loader::preload: the state after the call and its result.
preload(name) ==
    IF name \in DOMAIN grammars
    THEN preload_language(name, grammars, loaded, opens, NoFind)
    ELSE LET f == find_grammar(name)
             failed == [grammars |-> grammars, languages |-> languages, loaded |-> loaded,
                        opens |-> opens, invokes |-> invokes, find |-> Found(f),
                        res |-> "GrammarNotFound"]
         IN  IF ~f.ok THEN failed
             ELSE IF modules[<<f.dir, name>>] = "bad"
                  THEN [failed EXCEPT !.res = "ModuleLoadError"]
                  ELSE preload_language(name, Insert(grammars, name, f.dir),
                                        Bump(loaded, name), Bump(opens, name), Found(f))

\* Loader::get
get(name) == IF name \in languages THEN name ELSE NoLang

\* The Loader's fields and the counters take the values preload returns.
ApplyPreload(r) ==
    /\ grammars' = r.grammars
    /\ languages' = r.languages
    /\ loaded' = r.loaded
    /\ opens' = r.opens
    /\ invokes' = r.invokes

\* Dropping the Loader drops every Library in Loader.grammars.
drop_loader(g, ld) == [n \in Langs |-> IF n \in DOMAIN g THEN ld[n] - 1 ELSE ld[n]]

NoResult == [kind |-> "none", path |-> 0]
NoCommand == << >>
NoCall == [name |-> NoLang, res |-> "none", find |-> NoFind, resolved |-> FALSE]

(***************************************************************************)
(* The Loader driven directly: any sequence of preload calls.              *)
(***************************************************************************)
Includes == SeqsUpTo(Dirs, MaxInclude)
FileSystems == [Dirs \X Langs -> Kinds]

InitLoaderState ==
    /\ grammars = << >>
    /\ languages = {}
    /\ handle = NoLang
    /\ loaded = [n \in Langs |-> 0]
    /\ opens = [n \in Langs |-> 0]
    /\ invokes = [n \in Langs |-> 0]
    /\ calls = 0
    /\ lastCall = NoCall

InitLoader ==
    /\ cmd = [name |-> "loader", language |-> NoLang]
    /\ include \in Includes
    /\ modules \in FileSystems
    /\ contents = << >>
    /\ addr = << >>
    /\ roots = << >>
    /\ walk = << >>
    /\ command = NoCommand
    /\ pc = "loader"
    /\ paths = << >>
    /\ langsLeft = {}
    /\ InitLoaderState
    /\ task = << >>
    /\ ingestor = << >>
    /\ imported = << >>
    /\ result = NoResult

CallPreload(name) ==
    /\ cmd.name = "loader"
    /\ calls < MaxCalls
    /\ LET r == preload(name)
       IN  /\ ApplyPreload(r)
           /\ lastCall' = [name |-> name, res |-> r.res, find |-> r.find,
                           resolved |-> name \in languages]
    /\ calls' = calls + 1
    /\ UNCHANGED <<envVars, command, walk, pc, paths, langsLeft, handle, task, ingestor,
                   imported, result>>

\* IngestorConfig::find_grammar applied to a name.
CallIngestFind(name) ==
    /\ cmd.name = "loader"
    /\ calls < MaxCalls
    /\ lastCall' = [name |-> name, res |-> "find",
                    find |-> Found(IngestorConfig_find_grammar(name)), resolved |-> FALSE]
    /\ calls' = calls + 1
    /\ UNCHANGED <<envVars, command, walk, pc, paths, langsLeft, grammars, languages, handle,
                   loaded, opens,
                   invokes, task, ingestor, imported, result>>

NextLoader ==
    \/ \E name \in Langs : CallPreload(name)
    \/ \E name \in Langs : CallIngestFind(name)

SpecLoader == InitLoader /\ [][NextLoader]_vars


(***************************************************************************)
(* Source files and what the parser makes of them.                         *)
(*   assign      "x=1"   module(assignment(left: identifier, "=",          *)
(*                       right: integer))                                  *)
(*   error       "(e'"   module(ERROR("(", identifier)); e' is two bytes   *)
(*   mismatch    "e'"    a grammar whose ranges do not fit the source:     *)
(*                       one leaf ends inside e', one ends after the end   *)
(*   unreadable          the file cannot be read                           *)
(*   notree      "x"     the parser returns no tree                        *)
(***************************************************************************)
Contents == {"assign", "error", "mismatch", "unreadable", "notree"}

None == [some |-> FALSE, v |-> << >>]
Some(x) == [some |-> TRUE, v |-> x]
NoField == [some |-> FALSE, v |-> ""]

SourceOf(c) ==
    CASE c = "assign" -> <<120, 61, 49>>
      [] c = "error" -> <<40, 195, 169>>
      [] c = "mismatch" -> <<195, 169>>
      [] c = "notree" -> <<120>>
      [] OTHER -> << >>

Leaf(kind, named, sb, eb) ==
    [kind |-> kind, named |-> named, error |-> FALSE, sb |-> sb, eb |-> eb,
     kids |-> << >>, fields |-> << >>]
Inner(kind, error, sb, eb, kids, fields) ==
    [kind |-> kind, named |-> TRUE, error |-> error, sb |-> sb, eb |-> eb,
     kids |-> kids, fields |-> fields]

\* The tree of a content, its nodes numbered from the root in the order of
\* their allocation.
TreeOf(c) ==
    CASE c = "assign" ->
           [id \in 1..5 |->
              CASE id = 1 -> Inner("module", FALSE, 0, 3, <<2>>, <<NoField>>)
                [] id = 2 -> Inner("assignment", FALSE, 0, 3, <<3, 4, 5>>,
                                   <<Some("left"), NoField, Some("right")>>)
                [] id = 3 -> Leaf("identifier", TRUE, 0, 1)
                [] id = 4 -> Leaf("=", FALSE, 1, 2)
                [] OTHER -> Leaf("integer", TRUE, 2, 3)]
      [] c = "error" ->
           [id \in 1..4 |->
              CASE id = 1 -> Inner("module", FALSE, 0, 3, <<2>>, <<NoField>>)
                [] id = 2 -> Inner("ERROR", TRUE, 0, 3, <<3, 4>>, <<NoField, NoField>>)
                [] id = 3 -> Leaf("(", FALSE, 0, 1)
                [] OTHER -> Leaf("identifier", TRUE, 1, 3)]
      [] c = "mismatch" ->
           [id \in 1..3 |->
              CASE id = 1 -> Inner("module", FALSE, 0, 2, <<2, 3>>, <<NoField, NoField>>)
                [] id = 2 -> Leaf("identifier", TRUE, 0, 1)
                [] OTHER -> Leaf("identifier", TRUE, 1, 5)]
      [] OTHER -> << >>

\* The root is the first node of its tree.
RootId == 1

\* Where a tree can be allocated. Node::id() is the address of the node: it is
\* unique within one tree and is whatever the allocator returned. The trees of
\* one run are taken to get the same addresses, each allocated where the one
\* before it was freed; another run can get other addresses.
Bases == {0, 10}

\* The tree of a content allocated at `base`: Node::id() -> the node
TreeAt(c, base) ==
    LET t == TreeOf(c)
    IN  [id \in {k + base : k \in DOMAIN t} |->
           LET n == t[id - base]
           IN  [n EXCEPT !.kids = [j \in DOMAIN n.kids |-> n.kids[j] + base]]]

\* parser.parse(&source, None): Some(tree) or None
parse(c, base) == IF c = "notree" THEN None ELSE Some(TreeAt(c, base))

\* tree.root_node().id()
root_id(base) == base + RootId

\* str::is_char_boundary on the bytes of a String
is_char_boundary(src, i) ==
    \/ i = 0
    \/ i = Len(src)
    \/ /\ i < Len(src)
       /\ ~(src[i + 1] >= 128 /\ src[i + 1] < 192)

\* str::get(start..end)
str_get(src, start, end) ==
    IF /\ start <= end
       /\ end <= Len(src)
       /\ is_char_boundary(src, start)
       /\ is_char_boundary(src, end)
    THEN Some(SubSeq(src, start + 1, end))
    ELSE None

(***************************************************************************)
(* export.rs: the rows of one file                                         *)
(***************************************************************************)

\* source_bytes without the test for a named node
ExportableNode_from_mut(path, id, node) ==
    [path |-> path, id |-> id, kind |-> node.kind, is_error |-> node.error,
     source_bytes |-> IF Len(node.kids) = 0
                      THEN [some |-> TRUE, start |-> node.sb, end |-> node.eb]
                      ELSE [some |-> FALSE, start |-> 0, end |-> 0]]

\* ExportableNode::from
ExportableNode_from(path, id, node) ==
    [path |-> path, id |-> id, kind |-> node.kind, is_error |-> node.error,
     source_bytes |-> IF node.named /\ Len(node.kids) = 0
                      THEN [some |-> TRUE, start |-> node.sb, end |-> node.eb]
                      ELSE [some |-> FALSE, start |-> 0, end |-> 0]]

\* ExportableNode::to_vec
ExportableNode_to_vec(n, source) ==
    <<n.path, n.id, n.kind, n.is_error,
      IF n.source_bytes.some
      THEN str_get(source, n.source_bytes.start, n.source_bytes.end)
      ELSE None>>

\* ExportableNodeLocation::from and to_vec. Every source here is one line, so
\* the row is 0 and the column is the byte offset.
ExportableNodeLocation_from(path, id, node) ==
    <<path, id, node.sb, 0, node.sb, node.eb, 0, node.eb>>

\* The edge with the id of the child in both columns
ExportableEdge_child(path, id, node, i) == <<path, node.kids[i], node.kids[i], node.fields[i]>>

\* ExportableEdge and to_vec, as slurp builds it for the i-th child of `id`
ExportableEdge(path, id, node, i) == <<path, id, id, node.fields[i]>>

RECURSIVE edges_of(_, _, _, _)
edges_of(path, id, node, i) ==
    IF i > Len(node.kids) THEN << >>
    ELSE <<ExportableEdge(path, id, node, i)>> \o edges_of(path, id, node, i + 1)

NewTask ==
    [st |-> "pending", err |-> "none", source |-> << >>, todo |-> << >>, nodes |-> << >>,
     locations |-> << >>, edges |-> << >>]

\* The loop with a `continue` after the warning for an error node placed
\* between the push of its node row and the push of its location row.
slurp_step_mut(t, path, tree) ==
    LET id == t.todo[Len(t.todo)]
        node == tree[id]
        todo == SubSeq(t.todo, 1, Len(t.todo) - 1) \o node.kids
    IN  [t EXCEPT !.todo = todo,
                  !.nodes = Append(@, ExportableNode_from(path, id, node)),
                  !.locations = IF node.error THEN @
                                ELSE Append(@, ExportableNodeLocation_from(path, id, node)),
                  !.edges = @ \o edges_of(path, id, node, 1),
                  !.st = IF todo = << >> THEN "ok" ELSE "walk"]

\* The loop with a `continue` right after the warning for an error node: the
\* node gets no row and its children are not pushed.
slurp_step_drop(t, path, tree) ==
    LET id == t.todo[Len(t.todo)]
        node == tree[id]
        rest == SubSeq(t.todo, 1, Len(t.todo) - 1)
        todo == IF node.error THEN rest ELSE rest \o node.kids
    IN  IF node.error
        THEN [t EXCEPT !.todo = todo, !.st = IF todo = << >> THEN "ok" ELSE "walk"]
        ELSE [t EXCEPT !.todo = todo,
                       !.nodes = Append(@, ExportableNode_from(path, id, node)),
                       !.locations = Append(@, ExportableNodeLocation_from(path, id, node)),
                       !.edges = @ \o edges_of(path, id, node, 1),
                       !.st = IF todo = << >> THEN "ok" ELSE "walk"]

\* The loop pushing only the first child of the node onto the worklist
slurp_step_first_child(t, path, tree) ==
    LET id == t.todo[Len(t.todo)]
        node == tree[id]
        todo == SubSeq(t.todo, 1, Len(t.todo) - 1) \o SubSeq(node.kids, 1, 1)
    IN  [t EXCEPT !.todo = todo,
                  !.nodes = Append(@, ExportableNode_from(path, id, node)),
                  !.locations = Append(@, ExportableNodeLocation_from(path, id, node)),
                  !.edges = @ \o edges_of(path, id, node, 1),
                  !.st = IF todo = << >> THEN "ok" ELSE "walk"]

\* One iteration of the `while let Some(node) = todo.pop()` loop of slurp, and
\* the Ok(()) that follows the last one.
slurp_step(t, path, tree) ==
    LET id == t.todo[Len(t.todo)]
        node == tree[id]
        todo == SubSeq(t.todo, 1, Len(t.todo) - 1) \o node.kids
    IN  [t EXCEPT !.todo = todo,
                  !.nodes = Append(@, ExportableNode_from(path, id, node)),
                  !.locations = Append(@, ExportableNodeLocation_from(path, id, node)),
                  !.edges = @ \o edges_of(path, id, node, 1),
                  !.st = IF todo = << >> THEN "ok" ELSE "walk"]

(***************************************************************************)
(* ingest.rs: the rows of one file                                         *)
(***************************************************************************)

\* IngestableNode::from and to_vec: Some(row), or None for the bail!
IngestableNode_from(path, id, node, all_source) ==
    IF node.named
    THEN LET s == str_get(all_source, node.sb, node.eb)
         IN  IF s.some THEN Some(<<path, id, node.kind, node.error, s>>) ELSE None
    ELSE Some(<<path, id, node.kind, node.error, None>>)

\* IngestableNodeLocation::from and to_vec
IngestableNodeLocation_from(path, id, node) ==
    <<path, id, node.sb, 0, node.sb, node.eb, 0, node.eb>>

\* IngestableEdge and to_vec, as ingest builds it for the i-th child of `id`
IngestableEdge(path, id, node, i) == <<path, id, id, node.fields[i]>>

RECURSIVE ingest_edges_of(_, _, _, _)
ingest_edges_of(path, id, node, i) ==
    IF i > Len(node.kids) THEN << >>
    ELSE <<IngestableEdge(path, id, node, i)>> \o ingest_edges_of(path, id, node, i + 1)

NewIngestor == [nodes |-> << >>, locations |-> << >>, edges |-> << >>]


(***************************************************************************)
(* The run of a command                                                    *)
(***************************************************************************)
Files == 1..MaxFiles
NoRows == [nodes |-> << >>, node_locations |-> << >>, edges |-> << >>]

\* The entries files() returns: entry i is path i; odd paths are of language
\* "a", even ones of language "b". The ingestor parses every file with -l.
EntryLanguage(c, i) ==
    IF c.name = "ingest" THEN c.language ELSE IF i % 2 = 1 THEN "a" ELSE "b"

Init ==
    /\ cmd \in {[name |-> "export", language |-> NoLang]}
               \cup {[name |-> "ingest", language |-> l] : l \in Langs}
    /\ include = <<"d2", "d1">>
    /\ modules \in {m \in FileSystems : \A l \in Langs : m[<<"d2", l>>] = "absent"}
    /\ contents \in [Files -> Contents]
    /\ addr \in {[i \in Files |-> base] : base \in Bases}
    /\ roots = << >>
    /\ walk = << >>
    /\ command = NoCommand
    /\ paths = [i \in Files |-> [language |-> EntryLanguage(cmd, i), path |-> i]]
    /\ pc = IF cmd.name = "export" THEN "preload" ELSE "language_for"
    /\ langsLeft = IF cmd.name = "export" THEN {EntryLanguage(cmd, i) : i \in Files} ELSE {}
    /\ InitLoaderState
    /\ task = [i \in Files |-> NewTask]
    /\ ingestor = NewIngestor
    /\ imported = NoRows
    /\ result = NoResult

\* slurp_all line 300: the name under which the closure exports entry i
task_path_mut(i) == paths[1].path
task_path(i) == paths[i].path

\* slurp_all lines 294-298: where the main thread goes after a preload that
\* returned `res`, with `left` still to preload
after_preload_mut(res, left) == IF left = {} THEN "extract" ELSE "preload"
after_preload(res, left) ==
    IF res # "Ok" THEN "report" ELSE IF left = {} THEN "extract" ELSE "preload"

\* slurp_all, `for language in languages.drain()`: one preload. An error
\* returns from slurp_all, which drops the Loader.
Preload(name) ==
    /\ cmd.name = "export"
    /\ pc = "preload"
    /\ name \in langsLeft
    /\ LET r == preload(name)
           next == after_preload(r.res, langsLeft \ {name})
       IN  /\ ApplyPreload([r EXCEPT !.loaded = IF next = "report"
                                                THEN drop_loader(r.grammars, r.loaded)
                                                ELSE r.loaded])
           /\ lastCall' = [name |-> name, res |-> r.res, find |-> r.find,
                           resolved |-> name \in languages]
           /\ pc' = next
           /\ result' = IF next = "report" THEN [kind |-> r.res, path |-> 0] ELSE result
    /\ langsLeft' = langsLeft \ {name}
    /\ calls' = calls + 1
    /\ UNCHANGED <<envVars, command, walk, paths, handle, task, ingestor, imported>>

\* The closure of par_iter().map up to parser.parse: loader.get, FileExporter::new,
\* read_source.
Start(i) ==
    /\ cmd.name = "export"
    /\ pc = "extract"
    /\ task[i].st = "pending"
    /\ task' = [task EXCEPT ![i] =
                  IF get(paths[i].language) = NoLang
                  THEN [@ EXCEPT !.st = "err", !.err = "NoLanguage"]
                  ELSE IF contents[task_path(i)] = "unreadable"
                       THEN [@ EXCEPT !.st = "err", !.err = "ReadError"]
                       ELSE [@ EXCEPT !.st = "read",
                                      !.source = SourceOf(contents[task_path(i)])]]
    /\ UNCHANGED <<envVars, command, walk, pc, paths, langsLeft, loaderVars, handle, calls,
                   ingestor,
                   imported, result>>

\* slurp lines 404-415: parse, and the worklist with the root in it
Parse(i) ==
    /\ cmd.name = "export"
    /\ pc = "extract"
    /\ task[i].st = "read"
    /\ LET tree == parse(contents[task_path(i)], addr[i])
       IN  task' = [task EXCEPT ![i] =
                      IF tree.some
                      THEN [@ EXCEPT !.st = "walk", !.todo = <<root_id(addr[i])>>]
                      ELSE [@ EXCEPT !.st = "err", !.err = "ParseProducedNoTree"]]
    /\ UNCHANGED <<envVars, command, walk, pc, paths, langsLeft, loaderVars, handle, calls,
                   ingestor,
                   imported, result>>

\* slurp lines 417-444: one iteration of the worklist loop
Visit(i) ==
    /\ cmd.name = "export"
    /\ pc = "extract"
    /\ task[i].st = "walk"
    /\ task' = [task EXCEPT ![i] = slurp_step(@, task_path(i), TreeAt(contents[task_path(i)], addr[i]))]
    /\ UNCHANGED <<envVars, command, walk, pc, paths, langsLeft, loaderVars, handle, calls,
                   ingestor,
                   imported, result>>

\* rayon's collect into a Result stops handing out entries once one has failed;
\* entries already taken by a worker still run.
Skip(i) ==
    /\ cmd.name = "export"
    /\ pc = "extract"
    /\ task[i].st = "pending"
    /\ \E j \in Files : task[j].st = "err"
    /\ task' = [task EXCEPT ![i].st = "skipped"]
    /\ UNCHANGED <<envVars, command, walk, pc, paths, langsLeft, loaderVars, handle, calls,
                   ingestor,
                   imported, result>>

Failed(t) == {i \in DOMAIN t : t[i].st = "err"}

\* collect::<Result<Vec<_>>>() that keeps the exporters that succeeded
collect_mut(t) == TRUE
\* collect::<Result<Vec<_>>>(): Ok only if no closure returned Err
collect(t) == Failed(t) = {}

\* The closure's error with the path of the first entry in its message
closure_err_first(t, i) == [kind |-> t[i].err, path |-> paths[1].path]
\* slurp_all lines 307-311: the Err of the closure of entry i, the error of
\* slurp wrapped with "could not export from `path`"
closure_err(t, i) == [kind |-> t[i].err, path |-> task_path(i)]

\* slurp_all lines 314-317: collect()?, then empty_db()?. An Err carries the
\* error of one of the closures that failed.
Collect ==
    /\ cmd.name = "export"
    /\ pc = "extract"
    /\ \A i \in Files : task[i].st \in {"ok", "err", "skipped"}
    /\ \/ /\ collect(task)
          /\ \E dbOk \in BOOLEAN :
               IF dbOk
               THEN /\ pc' = "merge"
                    /\ UNCHANGED <<loaded, result>>
               ELSE /\ pc' = "report"
                    /\ loaded' = drop_loader(grammars, loaded)
                    /\ result' = [kind |-> "SinkError", path |-> 0]
       \/ /\ ~collect(task)
          /\ \E i \in Failed(task) : result' = closure_err(task, i)
          /\ pc' = "report"
          /\ loaded' = drop_loader(grammars, loaded)
    /\ UNCHANGED <<envVars, command, walk, paths, langsLeft, grammars, languages, handle,
                   opens, invokes,
                   calls, lastCall, task, ingestor, imported>>

\* exporter.nodes.iter().map(|node| node.to_vec(&exporter.source)).collect()
RECURSIVE nodes_to_vec(_, _)
nodes_to_vec(nodes, source) ==
    IF nodes = << >> THEN << >>
    ELSE <<ExportableNode_to_vec(Head(nodes), source)>> \o nodes_to_vec(Tail(nodes), source)

\* From<FileExporter> for BTreeMap<String, NamedRows>: the rows of the three relations
exporter_into(t) ==
    [nodes |-> nodes_to_vec(t.nodes, t.source),
     node_locations |-> t.locations,
     edges |-> t.edges]

AppendRows(db, rows) ==
    [nodes |-> db.nodes \o rows.nodes,
     node_locations |-> db.node_locations \o rows.node_locations,
     edges |-> db.edges \o rows.edges]

\* The exporters the Vec holds, in the order of `paths`
Exporters == {i \in Files : task[i].st = "ok"}
Drained == {i \in Files : task[i].st = "drained"}

\* slurp_all lines 319-325: import the next exporter; after the last one
\* slurp_all returns the db, and its Loader is dropped.
Import ==
    /\ cmd.name = "export"
    /\ pc = "merge"
    /\ Exporters # {}
    /\ LET i == CHOOSE j \in Exporters : \A k \in Exporters : j <= k
       IN  \E ok \in BOOLEAN :
             IF ok
             THEN /\ imported' = AppendRows(imported, exporter_into(task[i]))
                  /\ task' = [task EXCEPT ![i].st = "drained"]
                  /\ pc' = IF Exporters = {i} THEN "output" ELSE "merge"
                  /\ loaded' = IF Exporters = {i} THEN drop_loader(grammars, loaded) ELSE loaded
                  /\ UNCHANGED result
             ELSE /\ result' = [kind |-> "SinkError", path |-> 0]
                  /\ pc' = "report"
                  /\ loaded' = drop_loader(grammars, loaded)
                  /\ UNCHANGED <<imported, task>>
    /\ UNCHANGED <<envVars, command, walk, paths, langsLeft, grammars, languages, handle,
                   opens, invokes,
                   calls, lastCall, ingestor>>

\* run: export_relations and write, or backup_db
Output ==
    /\ pc = "output"
    /\ \E ok \in BOOLEAN : result' = [kind |-> IF ok THEN "Ok" ELSE "OutputError", path |-> 0]
    /\ pc' = "done"
    /\ UNCHANGED <<envVars, command, walk, paths, langsLeft, loaderVars, handle, calls, task,
                   ingestor,
                   imported>>

\* main: eprintln!("{err:?}")
Report ==
    /\ pc = "report"
    /\ pc' = "done"
    /\ UNCHANGED <<envVars, command, walk, paths, langsLeft, loaderVars, handle, calls, task,
                   ingestor,
                   imported, result>>

\* The process exits; the system unmaps what is still mapped.
Exit ==
    /\ pc = "done"
    /\ pc' = "exited"
    /\ loaded' = [n \in Langs |-> 0]
    /\ UNCHANGED <<envVars, command, walk, paths, langsLeft, grammars, languages, handle,
                   opens, invokes,
                   calls, lastCall, task, ingestor, imported, result>>


(***************************************************************************)
(* ingest.rs: IngestorConfig::run                                          *)
(***************************************************************************)

\* IngestorConfig::language_for: the counters after the call and its result.
\* The Library is dropped when the symbol is missing and forgotten (never
\* closed) once the entry point has run.
language_for(name) ==
    LET f == IngestorConfig_find_grammar(name)
        failed == [loaded |-> loaded, opens |-> opens, invokes |-> invokes,
                   find |-> Found(f), res |-> "GrammarNotFound"]
    IN  IF ~f.ok THEN failed
        ELSE IF modules[<<f.dir, name>>] = "bad"
             THEN [failed EXCEPT !.res = "ModuleLoadError"]
             ELSE IF modules[<<f.dir, name>>] = "nosym"
                  THEN [failed EXCEPT !.res = "SymbolResolutionError",
                                      !.opens = Bump(opens, name)]
                  ELSE [failed EXCEPT !.res = "Ok",
                                      !.opens = Bump(opens, name),
                                      !.loaded = Bump(loaded, name),
                                      !.invokes = Bump(invokes, name)]

\* run lines 93-97
LanguageFor ==
    /\ cmd.name = "ingest"
    /\ pc = "language_for"
    /\ LET r == language_for(cmd.language)
       IN  /\ loaded' = r.loaded
           /\ opens' = r.opens
           /\ invokes' = r.invokes
           /\ lastCall' = [name |-> cmd.language, res |-> r.res, find |-> r.find,
                           resolved |-> FALSE]
           /\ handle' = IF r.res = "Ok" THEN cmd.language ELSE NoLang
           /\ pc' = IF r.res = "Ok" THEN "ingest" ELSE "report"
           /\ result' = IF r.res = "Ok" THEN result ELSE [kind |-> r.res, path |-> 0]
    /\ UNCHANGED <<envVars, command, walk, paths, langsLeft, grammars, languages, calls, task,
                   ingestor,
                   imported>>

\* `for path in &self.file`: the file the loop is at
Current == CHOOSE i \in Files : task[i].st # "ok" /\ \A j \in Files : j < i => task[j].st = "ok"

\* One iteration of the worklist loop of ingest: the task and the Ingestor
\* after it, or the error of IngestableNode::from.
ingest_step(t, ing, path, tree) ==
    LET id == t.todo[Len(t.todo)]
        node == tree[id]
        todo == SubSeq(t.todo, 1, Len(t.todo) - 1) \o node.kids
        row == IngestableNode_from(path, id, node, t.source)
    IN  IF ~row.some
        THEN [task |-> [t EXCEPT !.st = "err", !.err = "SourceRangeOutOfBounds"],
              ingestor |-> ing]
        ELSE [task |-> [t EXCEPT !.todo = todo, !.st = IF todo = << >> THEN "ok" ELSE "walk"],
              ingestor |->
                 [nodes |-> Append(ing.nodes, row.v),
                  locations |-> Append(ing.locations, IngestableNodeLocation_from(path, id, node)),
                  edges |-> ing.edges \o ingest_edges_of(path, id, node, 1)]]

\* What run does with the task of the current file after a step of ingest: an
\* error returns from run, the end of the last file goes on to the import.
IngestNext(i, t) ==
    /\ pc' = IF t.st = "err" THEN "report"
             ELSE IF t.st = "ok" /\ i = MaxFiles THEN "merge" ELSE "ingest"
    /\ result' = IF t.st = "err" THEN [kind |-> t.err, path |-> paths[i].path] ELSE result

\* ingest lines 253-254
IngestRead(i) ==
    /\ cmd.name = "ingest"
    /\ pc = "ingest"
    /\ i = Current
    /\ task[i].st = "pending"
    /\ LET t == IF contents[paths[i].path] = "unreadable"
                THEN [task[i] EXCEPT !.st = "err", !.err = "ReadError"]
                ELSE [task[i] EXCEPT !.st = "read", !.source = SourceOf(contents[paths[i].path])]
       IN  /\ task' = [task EXCEPT ![i] = t]
           /\ IngestNext(i, t)
    /\ UNCHANGED <<envVars, command, walk, paths, langsLeft, loaderVars, handle, calls,
                   ingestor, imported>>

\* ingest lines 256-267
IngestParse(i) ==
    /\ cmd.name = "ingest"
    /\ pc = "ingest"
    /\ i = Current
    /\ task[i].st = "read"
    /\ LET t == IF parse(contents[paths[i].path], addr[i]).some
                THEN [task[i] EXCEPT !.st = "walk", !.todo = <<root_id(addr[i])>>]
                ELSE [task[i] EXCEPT !.st = "err", !.err = "ParseProducedNoTree"]
       IN  /\ task' = [task EXCEPT ![i] = t]
           /\ IngestNext(i, t)
    /\ UNCHANGED <<envVars, command, walk, paths, langsLeft, loaderVars, handle, calls,
                   ingestor, imported>>

\* ingest lines 269-300
IngestVisit(i) ==
    /\ cmd.name = "ingest"
    /\ pc = "ingest"
    /\ i = Current
    /\ task[i].st = "walk"
    /\ LET r == ingest_step(task[i], ingestor, paths[i].path, TreeAt(contents[paths[i].path], addr[i]))
       IN  /\ task' = [task EXCEPT ![i] = r.task]
           /\ ingestor' = r.ingestor
           /\ IngestNext(i, r.task)
    /\ UNCHANGED <<envVars, command, walk, paths, langsLeft, loaderVars, handle, calls, imported>>

\* From<Ingestor> for BTreeMap<String, NamedRows>: the rows of the three relations
ingestor_into(ing) ==
    [nodes |-> ing.nodes, node_locations |-> ing.locations, edges |-> ing.edges]

\* run lines 114-118: empty_db()?, then import_relations
IngestImport ==
    /\ cmd.name = "ingest"
    /\ pc = "merge"
    /\ \E ok \in BOOLEAN :
         IF ok
         THEN /\ imported' = AppendRows(imported, ingestor_into(ingestor))
              /\ pc' = "output"
              /\ UNCHANGED result
         ELSE /\ result' = [kind |-> "SinkError", path |-> 0]
              /\ pc' = "report"
              /\ UNCHANGED imported
    /\ UNCHANGED <<envVars, command, walk, paths, langsLeft, loaderVars, handle, calls, task,
                   ingestor>>

Next ==
    \/ \E name \in Langs : Preload(name)
    \/ \E i \in Files : Start(i)
    \/ \E i \in Files : Parse(i)
    \/ \E i \in Files : Visit(i)
    \/ \E i \in Files : Skip(i)
    \/ Collect
    \/ Import
    \/ LanguageFor
    \/ \E i \in Files : IngestRead(i)
    \/ \E i \in Files : IngestParse(i)
    \/ \E i \in Files : IngestVisit(i)
    \/ IngestImport
    \/ Output
    \/ Report
    \/ Exit

Spec == Init /\ [][Next]_vars


(***************************************************************************)
(* Properties                                                              *)
(***************************************************************************)
Key(row) == <<row[1], row[2]>>
Count(rows, key) == Cardinality({k \in DOMAIN rows : Key(rows[k]) = key})
Finished == pc \in {"done", "exited"}
Succeeded == result.kind = "Ok"

\* The rows a command has produced for entry i so far
NodeRowsOf(i) ==
    IF cmd.name = "export" THEN nodes_to_vec(task[i].nodes, task[i].source)
    ELSE SelectSeq(ingestor.nodes, LAMBDA r : r[1] = paths[i].path)
EdgeRowsOf(i) ==
    IF cmd.name = "export" THEN task[i].edges
    ELSE SelectSeq(ingestor.edges, LAMBDA r : r[1] = paths[i].path)
Extracted(i) == task[i].st \in {"ok", "drained"}

\* The node reached from n by following parent edges `steps` times, or n
\* itself where no edge leads to it
RECURSIVE Climb(_, _, _)
Climb(edges, n, steps) ==
    IF steps = 0 \/ ~\E k \in DOMAIN edges : edges[k][3] = n THEN n
    ELSE LET k == CHOOSE j \in DOMAIN edges : edges[j][3] = n
         IN  Climb(edges, edges[k][2], steps - 1)


Incoming(edges, n) == Cardinality({k \in DOMAIN edges : edges[k][3] = n})

IsTree(ids, edges) ==
    /\ \A k \in DOMAIN edges : edges[k][2] \in ids /\ edges[k][3] \in ids
    /\ Cardinality({n \in ids : Incoming(edges, n) = 0}) = 1
    /\ \A n \in ids : Incoming(edges, n) <= 1
    /\ \A k \in DOMAIN edges : edges[k][2] # edges[k][3]
    /\ \A n \in ids : Incoming(edges, Climb(edges, n, Cardinality(ids))) = 0

NodeIdsOf(i) == {NodeRowsOf(i)[k][2] : k \in DOMAIN NodeRowsOf(i)}

\* C1: for every successfully extracted file, the edge rows of its path form a
\* tree over its node keys: one root without an incoming edge, every other
\* node the child of exactly one edge, no cycles, no edge from a node to itself.
C1_EdgesFormTree ==
    \A i \in Files : Extracted(i) => IsTree(NodeIdsOf(i), EdgeRowsOf(i))

\* C2: after a successful run the keys (path, id) of nodes and of
\* node_locations are the same set, and every key has exactly one row in each.
C2_NodesMatchLocations ==
    Succeeded =>
        /\ {Key(imported.nodes[k]) : k \in DOMAIN imported.nodes}
             = {Key(imported.node_locations[k]) : k \in DOMAIN imported.node_locations}
        /\ \A k \in DOMAIN imported.nodes :
             /\ Count(imported.node_locations, Key(imported.nodes[k])) = 1
             /\ Count(imported.nodes, Key(imported.nodes[k])) = 1
        /\ \A k \in DOMAIN imported.node_locations :
             /\ Count(imported.nodes, Key(imported.node_locations[k])) = 1
             /\ Count(imported.node_locations, Key(imported.node_locations[k])) = 1

\* A successful run that imported the rows of two files, one with an error node
C2_Witness ==
    /\ Succeeded
    /\ \E k \in DOMAIN imported.nodes : imported.nodes[k][4]
    /\ Cardinality({imported.nodes[k][1] : k \in DOMAIN imported.nodes}) >= 2

\* C3: once the extraction of a file has failed, the run does not reach the
\* merge, no row of any file is handed to the sink, and the run ends in failure.
C3_FailFast ==
    (\E i \in Files : task[i].st = "err") =>
        /\ imported = NoRows
        /\ pc \notin {"merge", "output"}
        /\ result.kind # "Ok"
        /\ Finished => result.kind # "none"

\* A failed run in which another file had been extracted completely
C3_Witness ==
    /\ Finished
    /\ \E i \in Files : task[i].st = "err"
    /\ \E j \in Files : task[j].st = "ok" /\ task[j].nodes # << >>

\* slurp run on its own from the root to the end of the worklist
RECURSIVE slurp_alone(_, _, _)
slurp_alone(t, path, tree) ==
    IF t.st = "walk" THEN slurp_alone(slurp_step(t, path, tree), path, tree) ELSE t

\* The rows of entry i when it is extracted with nothing else running and
\* the parser allocates its tree at `base`
RowsAt(i, base) ==
    exporter_into(slurp_alone([NewTask EXCEPT !.st = "walk",
                                              !.source = SourceOf(contents[paths[i].path]),
                                              !.todo = <<root_id(base)>>],
                              paths[i].path, TreeAt(contents[paths[i].path], base)))

\* The rows of entry i when it is extracted with nothing else running
RowsAlone(i) == RowsAt(i, addr[i])

RECURSIVE RowsInOrder(_)
RowsInOrder(n) == IF n = 0 THEN NoRows ELSE AppendRows(RowsInOrder(n - 1), RowsAlone(n))

C5_PreloadIdempotent ==
    /\ [](\A n \in Langs : opens[n] <= 1 /\ invokes[n] <= 1)
    /\ [][(calls' # calls /\ lastCall'.resolved) =>
            /\ lastCall'.res = "Ok"
            /\ grammars' = grammars
            /\ languages' = languages
            /\ opens' = opens
            /\ invokes' = invokes]_vars

\* A second preload of a resolved name has returned
C5_Witness ==
    /\ cmd.name = "loader"
    /\ lastCall.resolved
    /\ lastCall.res = "Ok"
    /\ opens[lastCall.name] = 1

\* C6: a module that is open and whose entry point has run stays open in every
\* step that does not end the process.
C6_ModuleStaysLoaded ==
    [][\A n \in Langs : (loaded[n] > 0 /\ invokes[n] > 0 /\ pc' # "exited") => loaded'[n] > 0]_vars

Hits(name) == {i \in 1..Len(include) : candidate_exists(include[i], name)}

\* C7: find_grammar returns the candidate of the first include directory that
\* has one, tests no directory after it, and fails exactly when none has one.
C7_FirstMatchWins ==
    lastCall.find.called =>
        LET f == lastCall.find
            hits == Hits(lastCall.name)
        IN  /\ f.ok <=> hits # {}
            /\ f.ok => /\ f.seen \in hits
                       /\ \A j \in hits : f.seen <= j
                       /\ f.dir = include[f.seen]
            /\ lastCall.res = "GrammarNotFound" <=> (~f.ok /\ lastCall.res # "find")

\* A search that stopped at a directory although a later, different one has the file too
C7_Witness ==
    /\ lastCall.find.called
    /\ lastCall.find.ok
    /\ \E j \in Hits(lastCall.name) : j > lastCall.find.seen /\ include[j] # lastCall.find.dir

Required == {paths[i].language : i \in Files}
\* What the first include directory that has a module of the name holds
FirstKind(name) ==
    IF Hits(name) = {} THEN "absent"
    ELSE modules[<<include[CHOOSE i \in Hits(name) : \A j \in Hits(name) : i <= j], name>>]
Missing(name) == Hits(name) = {}
NothingExtracted ==
    /\ \A i \in Files : task[i].st = "pending"
    /\ ingestor = NewIngestor
    /\ imported = NoRows

\* C8 as stated: if the module of a required language is in no include
\* directory, no file is read or parsed, no row is produced, and the run fails
\* with the grammar-not-found error.
C8_MissingGrammarNotFound ==
    (cmd.name # "loader" /\ \E l \in Required : Missing(l)) =>
        /\ NothingExtracted
        /\ Finished => result.kind = "GrammarNotFound"

\* C8 amended: ... the run fails with the error of the first preload that
\* fails: grammar-not-found, or the load or symbol error of another required
\* language whose module is there.
C8_MissingGrammarFails ==
    (cmd.name # "loader" /\ \E l \in Required : Missing(l)) =>
        /\ NothingExtracted
        /\ pc \notin {"extract", "ingest", "merge", "output"}
        /\ Finished =>
             \/ result.kind = "GrammarNotFound"
             \/ /\ result.kind = "ModuleLoadError"
                /\ \E l \in Required : FirstKind(l) = "bad"
             \/ /\ result.kind = "SymbolResolutionError"
                /\ \E l \in Required : FirstKind(l) = "nosym"

\* A run that ended with grammar-not-found although the grammar of another entry was loaded
C8_Witness ==
    /\ cmd.name = "export"
    /\ Finished
    /\ result.kind = "GrammarNotFound"
    /\ \E l \in Required : opens[l] = 1 /\ invokes[l] = 1

\* The node rows emitted so far, and the location rows emitted with them
EmittedNodes == IF cmd.name = "ingest" THEN ingestor.nodes ELSE imported.nodes
EmittedLocations == IF cmd.name = "ingest" THEN ingestor.locations ELSE imported.node_locations
EntryOf(path) == CHOOSE i \in Files : paths[i].path = path
NodeOfRow(r) == TreeAt(contents[r[1]], addr[EntryOf(r[1])])[r[2]]
Captures(node) == node.named /\ (cmd.name = "export" => node.kids = << >>)

\* C9: the source of a node row is non-null only for a named node (in the
\* exporter: a named node without children), and is then the bytes
\* [start_byte, end_byte) of the file that the node's location row records.
C9_SourceText ==
    \A k \in DOMAIN EmittedNodes :
        LET r == EmittedNodes[k]
            src == SourceOf(contents[r[1]])
        IN  /\ r[5].some => Captures(NodeOfRow(r))
            /\ ~NodeOfRow(r).named => ~r[5].some
            /\ (cmd.name = "export" /\ NodeOfRow(r).kids # << >>) => ~r[5].some
            /\ r[5].some =>
                 /\ \E j \in DOMAIN EmittedLocations : Key(EmittedLocations[j]) = Key(r)
                 /\ \A j \in DOMAIN EmittedLocations :
                      Key(EmittedLocations[j]) = Key(r) =>
                        LET l == EmittedLocations[j]
                        IN  /\ 0 <= l[3] /\ l[3] <= l[6] /\ l[6] <= Len(src)
                            /\ r[5].v = [b \in 1..(l[6] - l[3]) |-> src[l[3] + b]]

\* Rows with a captured multi-byte text, a null for an unnamed node and a null
\* for a named node with children
C9_Witness ==
    /\ \E k \in DOMAIN EmittedNodes : EmittedNodes[k][5].some /\ Len(EmittedNodes[k][5].v) = 2
    /\ \E k \in DOMAIN EmittedNodes : ~NodeOfRow(EmittedNodes[k]).named
    /\ \E k \in DOMAIN EmittedNodes :
         NodeOfRow(EmittedNodes[k]).named /\ ~EmittedNodes[k][5].some

Sliceable(src, node) ==
    /\ node.sb <= node.eb
    /\ node.eb <= Len(src)
    /\ \A b \in {node.sb, node.eb} : b < Len(src) => ~(src[b + 1] \in 128..191)

\* C10: a node that qualifies for source text and whose byte range cannot be
\* sliced from the source read is never emitted; the extraction of its file
\* fails instead.
C10_RangeErrorIsFatal ==
    /\ \A k \in DOMAIN EmittedNodes :
         Captures(NodeOfRow(EmittedNodes[k])) =>
           Sliceable(SourceOf(contents[EmittedNodes[k][1]]), NodeOfRow(EmittedNodes[k]))
    /\ \A i \in Files :
         (\E k \in DOMAIN task[i].nodes :
            LET node == TreeAt(contents[paths[i].path], addr[i])[task[i].nodes[k].id]
            IN  Captures(node) /\ ~Sliceable(task[i].source, node))
         => ~Extracted(i)

\* The location rows a command has produced for entry i so far
LocationRowsOf(i) ==
    IF cmd.name = "export" THEN task[i].locations
    ELSE SelectSeq(ingestor.locations, LAMBDA r : r[1] = paths[i].path)

\* The tree the parser made of entry i
TreeOfEntry(i) == TreeAt(contents[paths[i].path], addr[i])

\* The nodes below the nodes of S, at most `depth` levels down
RECURSIVE Below(_, _, _)
Below(tree, S, depth) ==
    LET kids == UNION {{tree[n].kids[j] : j \in DOMAIN tree[n].kids} : n \in S}
    IN  IF depth = 0 \/ kids = {} THEN {} ELSE kids \cup Below(tree, kids, depth - 1)
Descendants(tree, id) == Below(tree, {id}, Cardinality(DOMAIN tree))

ErrorNodes(tree) == {id \in DOMAIN tree : tree[id].error}

\* C11: an error node does not abort the extraction of its file and is not
\* dropped: a file whose tree has an error node fails only before the walk,
\* and once it is extracted every error node has a node row with is_error
\* true, a location row with the same key, and a node row for each descendant.
C11_ErrorNodesKept ==
    \A i \in Files :
        LET tree == TreeOfEntry(i)
        IN  /\ (ErrorNodes(tree) # {} /\ task[i].st = "err") =>
                   task[i].err \in {"NoLanguage", "ReadError", "ParseProducedNoTree"}
            /\ Extracted(i) =>
                 \A id \in ErrorNodes(tree) :
                    /\ \E k \in DOMAIN NodeRowsOf(i) :
                         NodeRowsOf(i)[k][2] = id /\ NodeRowsOf(i)[k][4] = TRUE
                    /\ \E k \in DOMAIN LocationRowsOf(i) :
                         Key(LocationRowsOf(i)[k]) = <<paths[i].path, id>>
                    /\ \A d \in Descendants(tree, id) :
                         \E k \in DOMAIN NodeRowsOf(i) : NodeRowsOf(i)[k][2] = d

\* A successful export of a file whose tree has an error node with children
C11_Witness ==
    /\ cmd.name = "export"
    /\ pc = "output"
    /\ \E i \in Files :
         /\ Extracted(i)
         /\ \E id \in ErrorNodes(TreeOfEntry(i)) : Descendants(TreeOfEntry(i), id) # {}

\* A sequence of rows as a multiset: each row with the number of times it occurs
BagOf(rows) ==
    [r \in {rows[k] : k \in DOMAIN rows} |-> Cardinality({k \in DOMAIN rows : rows[k] = r})]

\* C12: extracting the same unchanged file with the same grammar again yields
\* the same multisets of node, location and edge rows, node ids included:
\* the rows of an extracted entry are those of any other extraction of it,
\* wherever the parser of that extraction allocates the tree.
C12_SameRowsEachTime ==
    \A i \in Files :
        (cmd.name = "export" /\ Extracted(i)) =>
            \A base \in Bases :
                /\ BagOf(exporter_into(task[i]).nodes) = BagOf(RowsAt(i, base).nodes)
                /\ BagOf(exporter_into(task[i]).node_locations)
                     = BagOf(RowsAt(i, base).node_locations)
                /\ BagOf(exporter_into(task[i]).edges) = BagOf(RowsAt(i, base).edges)

(***************************************************************************)
(* export.rs, files(): the classifier, applied to a list of roots.         *)
(*   src/            a directory                                           *)
(*   src/a.x         a file of type "a"                                    *)
(*   src/n.txt       a file of no type                                     *)
(*   src/sub/        a directory                                           *)
(*   src/sub/b.y     a file of type "b"                                    *)
(* No file is hidden or ignored.                                           *)
(***************************************************************************)
MaxRoots == 2       \* longest list of roots

TreePaths == {"src", "src/a.x", "src/n.txt", "src/sub", "src/sub/b.y"}

\* entry.file_type(): is_file()
is_file(p) == p \in {"src/a.x", "src/n.txt", "src/sub/b.y"}

\* The entries of a directory, in the order the walker reads them
read_dir(p) ==
    CASE p = "src" -> <<"src/a.x", "src/n.txt", "src/sub">>
      [] p = "src/sub" -> <<"src/sub/b.y">>
      [] OTHER -> << >>

\* types.matched(path, false): the name of the file type whose glob
\* whitelists the path, or NoLang
matched(p) ==
    CASE p = "src/a.x" -> "a"
      [] p = "src/sub/b.y" -> "b"
      [] OTHER -> NoLang

\* What the walker yields for p found at `depth` below a root: a root is
\* yielded whatever it is, a directory is yielded and then walked, a file
\* below a root is yielded if the types select it.
RECURSIVE walk_entry(_, _)
RECURSIVE walk_entries(_, _)
walk_entry(p, depth) ==
    IF is_file(p)
    THEN IF depth = 0 \/ matched(p) # NoLang THEN <<p>> ELSE << >>
    ELSE <<p>> \o walk_entries(read_dir(p), depth + 1)
walk_entries(ps, depth) ==
    IF ps = << >> THEN << >>
    ELSE walk_entry(Head(ps), depth) \o walk_entries(Tail(ps), depth)

\* builder.build(): the entries of the roots, root after root, in the order
\* they were added
WalkBuilder_build(rs) == walk_entries(rs, 0)

\* The body of `for entry_res in builder.build()` for one entry: the next
\* paths and languages, or the bail!
files_entry(ps, ls, entry) ==
    IF ~is_file(entry)
    THEN [res |-> "continue", paths |-> ps, languages |-> ls]
    ELSE IF matched(entry) # NoLang
         THEN [res |-> "continue",
               paths |-> Append(ps, [language |-> matched(entry), path |-> entry]),
               languages |-> ls \cup {matched(entry)}]
         ELSE [res |-> "UnmatchedEntry", paths |-> ps, languages |-> ls]

RootLists == SeqsUpTo(TreePaths, MaxRoots) \ {<< >>}

InitFiles ==
    /\ cmd = [name |-> "files", language |-> NoLang]
    /\ include = << >>
    /\ modules = << >>
    /\ contents = << >>
    /\ addr = << >>
    /\ roots \in RootLists
    /\ walk = WalkBuilder_build(roots)
    /\ command = NoCommand
    /\ pc = "files"
    /\ paths = << >>
    /\ langsLeft = {}
    /\ InitLoaderState
    /\ task = << >>
    /\ ingestor = << >>
    /\ imported = << >>
    /\ result = NoResult

\* files lines 258-281: one iteration of the loop
FilesEntry ==
    /\ cmd.name = "files"
    /\ pc = "files"
    /\ walk # << >>
    /\ LET r == files_entry(paths, langsLeft, Head(walk))
       IN  /\ paths' = r.paths
           /\ langsLeft' = r.languages
           /\ pc' = IF r.res = "continue" THEN "files" ELSE "report"
           /\ result' = IF r.res = "continue" THEN result ELSE [kind |-> r.res, path |-> 0]
    /\ walk' = Tail(walk)
    /\ UNCHANGED <<envVars, command, loaderVars, handle, calls, task, ingestor, imported>>

\* files line 283: Ok(LanguagesAndPaths { languages, paths })
FilesReturn ==
    /\ cmd.name = "files"
    /\ pc = "files"
    /\ walk = << >>
    /\ pc' = "classified"
    /\ result' = [kind |-> "Ok", path |-> 0]
    /\ UNCHANGED <<envVars, command, walk, paths, langsLeft, loaderVars, handle, calls, task,
                   ingestor,
                   imported>>

NextFiles == FilesEntry \/ FilesReturn

SpecFiles == InitFiles /\ [][NextFiles]_vars

\* The regular files below the roots that the types select, and the roots
\* that are regular files
Reachable(rs) == {rs[k] : k \in DOMAIN rs} \cup Below([p \in TreePaths |->
                    [kids |-> read_dir(p)]], {rs[k] : k \in DOMAIN rs}, Cardinality(TreePaths))
Surviving(rs) == {p \in Reachable(rs) : is_file(p) /\ matched(p) # NoLang}
EntriesOf(p) == Cardinality({k \in DOMAIN paths : paths[k].path = p})

\* C13: for any list of roots, the classifier returns exactly one entry for
\* each regular file that survives the filtering, and none for a directory.
C13_OneEntryPerFile ==
    (cmd.name = "files" /\ pc = "classified") =>
        /\ \A p \in Surviving(roots) : EntriesOf(p) = 1
        /\ \A k \in DOMAIN paths : is_file(paths[k].path)

\* C14: a regular file the walk yields that matches no file type is skipped
\* without error: the classification does not fail on it, and returns the
\* entries of the other files.
C14_UnmatchedSkipped ==
    cmd.name = "files" =>
        /\ result.kind # "UnmatchedEntry"
        /\ pc = "classified" => \A p \in Surviving(roots) : EntriesOf(p) >= 1

(***************************************************************************)
(* The sink: the relations SCHEMA creates, after import_relations.         *)
(***************************************************************************)
Relations == {"nodes", "node_locations", "edges"}

\* SCHEMA: the number of key columns of a relation, those before `=>`; the
\* relation edges has no `=>`, all of its columns are its key.
key_columns(rel) ==
    CASE rel = "nodes" -> 2
      [] rel = "node_locations" -> 2
      [] OTHER -> 4

\* A stored relation keeps one row per key: the rows of `rows`, each unless a
\* later row has the same key.
stored(rows, n) ==
    {rows[k] : k \in {j \in DOMAIN rows :
                        \A l \in DOMAIN rows :
                            SubSeq(rows[l], 1, n) = SubSeq(rows[j], 1, n) => l <= j}}

\* The relation `rel` of the db that slurp_all or run returns
db(rel) == stored(imported[rel], key_columns(rel))

RECURSIVE Sum(_, _)
Sum(f, S) == IF S = {} THEN 0 ELSE LET x == CHOOSE y \in S : TRUE IN f[x] + Sum(f, S \ {x})

\* The number of parent-child pairs of the tree of entry i
Pairs(i) ==
    LET tree == TreeOfEntry(i)
    IN  Sum([n \in DOMAIN tree |-> Len(tree[n].kids)], DOMAIN tree)

\* C15: after a successful run every relation of the sink holds every row of
\* every file: its row count is the sum of the row counts of the files, and
\* for edges that is the number of parent-child pairs of the trees.
C15_PureAppend ==
    (cmd.name = "export" /\ pc = "output") =>
        /\ \A rel \in Relations :
             Cardinality(db(rel))
               = Sum([i \in Files |-> Len(exporter_into(task[i])[rel])], Files)
        /\ Cardinality(db("edges")) = Sum([i \in Files |-> Pairs(i)], Files)

\* SCHEMA: the columns of a relation, keys first
schema_columns(rel) ==
    CASE rel = "nodes" -> <<"path", "id", "kind", "is_error", "source">>
      [] rel = "node_locations" ->
           <<"path", "id", "start_byte", "start_row", "start_column",
             "end_byte", "end_row", "end_column">>
      [] OTHER -> <<"path", "parent", "child", "field">>

\* From<FileExporter> for BTreeMap<String, NamedRows>: the headers
exporter_headers(rel) ==
    CASE rel = "nodes" -> <<"path", "id", "kind", "is_error", "source">>
      [] rel = "node_locations" ->
           <<"path", "id", "start_byte", "start_row", "start_column",
             "end_byte", "end_row", "end_column">>
      [] OTHER -> <<"path", "parent", "child", "field">>

\* From<Ingestor> for BTreeMap<String, NamedRows>: the headers
ingestor_headers(rel) ==
    CASE rel = "nodes" -> <<"path", "id", "kind", "is_error", "parent", "source">>
      [] rel = "node_locations" ->
           <<"path", "id", "start_byte", "start_row", "start_column",
             "end_byte", "end_row", "end_column">>
      [] OTHER -> <<"path", "parent", "child", "field">>

\* The headers of the NamedRows the command hands to import_relations
headers(rel) == IF cmd.name = "ingest" THEN ingestor_headers(rel) ELSE exporter_headers(rel)

\* C16: every relation handed to the sink has exactly the columns of the
\* schema, in their order, and each of its rows has as many values as the
\* relation has headers.
C16_HeadersMatchSchema ==
    \A rel \in Relations :
        imported[rel] # << >> =>
            /\ headers(rel) = schema_columns(rel)
            /\ \A k \in DOMAIN imported[rel] : Len(imported[rel][k]) = Len(headers(rel))

\* C17: when the run fails because the extraction of a file failed, the
\* reported error names the path of a file whose extraction failed and
\* carries the cause of that failure; it never names a file that was
\* extracted, whichever task finished first.
C17_ErrorNamesFailedFile ==
    /\ ((\E i \in Files : task[i].st = "err") /\ Finished) => result.path # 0
    /\ result.path # 0 =>
         /\ \E i \in Files :
              /\ task[i].st = "err"
              /\ paths[i].path = result.path
              /\ result.kind = task[i].err
         /\ \A i \in Files : task[i].st = "ok" => paths[i].path # result.path

\* A failed export whose first entry had been extracted completely before the
\* error of a later entry was reported
C17_Witness ==
    /\ cmd.name = "export"
    /\ Finished
    /\ task[1].st = "ok" /\ task[1].nodes # << >>
    /\ \E i \in Files : i # 1 /\ task[i].st = "err" /\ result.path = paths[i].path

\* The nodes above id in the tree
Ancestors(tree, id) == {a \in DOMAIN tree : id \in Descendants(tree, a)}

\* Every node of `ids` has a row among the first n rows
RowsFor(rows, ids, n) == \A a \in ids : \E j \in 1..n : j \in DOMAIN rows /\ rows[j][2] = a

\* C18: at every step of the worklist loop, the node row and the location row
\* of a node come before the node row of each of its descendants, and the
\* parent of every edge row, with all the nodes above it, already has a node
\* row and a location row.
C18_ParentRowFirst ==
    \A i \in Files :
        LET tree == TreeOfEntry(i)
            nodes == NodeRowsOf(i)
            locations == LocationRowsOf(i)
            edges == EdgeRowsOf(i)
        IN  /\ \A k \in DOMAIN nodes :
                 /\ RowsFor(nodes, Ancestors(tree, nodes[k][2]), k - 1)
                 /\ RowsFor(locations, Ancestors(tree, nodes[k][2]), k - 1)
            /\ \A k \in DOMAIN edges :
                 /\ RowsFor(nodes, {edges[k][2]} \cup Ancestors(tree, edges[k][2]), Len(nodes))
                 /\ RowsFor(locations, {edges[k][2]} \cup Ancestors(tree, edges[k][2]),
                            Len(locations))

\* A walk that has appended the edges of a node below the root and still has
\* nodes on its worklist
C18_Witness ==
    \E i \in Files :
        /\ task[i].st = "walk"
        /\ task[i].todo # << >>
        /\ \E k \in DOMAIN EdgeRowsOf(i) :
             Ancestors(TreeOfEntry(i), EdgeRowsOf(i)[k][2]) # {}

\* The nodes the walk of entry i has emitted, and those it has still to
\* visit: the worklist and everything below it
Visited(i) == {NodeRowsOf(i)[k][2] : k \in DOMAIN NodeRowsOf(i)}
OnWorklist(i) == {task[i].todo[k] : k \in DOMAIN task[i].todo}
Pending(i) ==
    OnWorklist(i) \cup Below(TreeOfEntry(i), OnWorklist(i), Cardinality(DOMAIN TreeOfEntry(i)))

\* In every state of a walk the emitted nodes and the pending nodes divide
\* the tree between them, nothing is emitted or listed twice, and the walk
\* has ended exactly when the worklist is empty.
VisitsEachNodeOnce ==
    \A i \in Files :
        task[i].st \in {"walk", "ok", "drained"} =>
            /\ Len(NodeRowsOf(i)) = Cardinality(Visited(i))
            /\ Len(task[i].todo) = Cardinality(OnWorklist(i))
            /\ Visited(i) \cap Pending(i) = {}
            /\ Visited(i) \cup Pending(i) = DOMAIN TreeOfEntry(i)
            /\ task[i].st = "walk" <=> task[i].todo # << >>
            /\ Extracted(i) => Len(NodeRowsOf(i)) = Cardinality(DOMAIN TreeOfEntry(i))

\* Every step of a walk emits one more node or ends the walk with an error
WalkProgresses ==
    \A i \in Files :
        (task[i].st = "walk" /\ task[i]' # task[i]) =>
            \/ task[i]'.st = "err"
            \/ Len(NodeRowsOf(i)') = Len(NodeRowsOf(i)) + 1

\* C19: the worklist traversal of a tree ends, with an empty worklist, after
\* it has visited every node reachable from the root exactly once: there are
\* as many node rows as the tree has nodes, none twice and none missing, and
\* every iteration takes one node from those still to visit.
C19_TraversalTerminates == []VisitsEachNodeOnce /\ [][WalkProgresses]_vars

\* An ingest that has walked a tree with a node of three children to the end
C19_Witness ==
    /\ cmd.name = "ingest"
    /\ \E i \in Files :
         /\ Extracted(i)
         /\ task[i].todo = << >>
         /\ Len(NodeRowsOf(i)) = 5

\* C20: for each visited node with k children there are exactly k edge rows
\* with that node as parent, in the order of the children, the i-th with the
\* id of the i-th child as child and its field name, or null, as field.
C20_EdgePerChild ==
    \A i \in Files :
        \A n \in Visited(i) :
            LET node == TreeOfEntry(i)[n]
            IN  SelectSeq(EdgeRowsOf(i), LAMBDA r : r[2] = n)
                  = [j \in DOMAIN node.kids |->
                       <<paths[i].path, n, node.kids[j], node.fields[j]>>]

(***************************************************************************)
(* slurp_all from its first line: files(), then the preloads and the       *)
(* fan-out. The behaviours are those of the classifier on a list of roots  *)
(* and those of a command on the entries it was given.                     *)
(***************************************************************************)
InitAll == Init \/ InitFiles
NextAll == Next \/ NextFiles
SpecAll == InitAll /\ [][NextAll]_vars

\* The closure of entry i has been called: loader.get has run for it
Dispatched(i) == task[i].st \notin {"pending", "skipped"}

\* C21: the language set files() returns is the set of the languages of its
\* entries, and before the closure of any entry runs, preload has been called
\* once for each of these languages and has returned Ok, so that Loader::get
\* returns a handle for every entry that is dispatched.
C21_PreloadedBeforeDispatch ==
    /\ cmd.name = "files" => langsLeft = {paths[k].language : k \in DOMAIN paths}
    /\ cmd.name = "export" =>
         \A i \in Files :
            Dispatched(i) =>
                /\ langsLeft = {}
                /\ calls = Cardinality(Required)
                /\ \A l \in Required : l \in languages /\ opens[l] = 1 /\ invokes[l] = 1
                /\ get(paths[i].language) # NoLang
                /\ task[i].err # "NoLanguage"

\* Two entries of two languages dispatched after two preloads
C21_Witness ==
    /\ cmd.name = "export"
    /\ \A i \in Files : Dispatched(i)
    /\ Cardinality(Required) = 2
    /\ calls = 2

(***************************************************************************)
(* compile_grammar.rs: compile-grammar for a language name, followed by a  *)
(* preload of that name with the out-dir as the include list.              *)
(***************************************************************************)
DYLIB_EXTENSION == "so"

\* A file name as <<prefix, language name, extension>>.
\* loader.rs line 73: format!("tree-sitter-{}.{}", name, DYLIB_EXTENSION)
search_name(name) == <<"tree-sitter-", name, DYLIB_EXTENSION>>
\* compile_grammar.rs line 97: format!("{}.{}", self.name, DYLIB_EXTENSION)
output_file(name) == <<"", name, DYLIB_EXTENSION>>

OptLevels == {0, 2, 3}
Scanners == {"none", "c", "cc"}

\* run lines 46-59 and 83-97: the command handed to the compiler for the
\* arguments `c`, with the scanner found. The output path is relative, so
\* the compiler resolves it in the working directory of the process.
compiler_command(c, scanner) ==
    [opt_level |-> 2, debug |-> c.debug, cpp |-> scanner = "cc", target |-> c.target,
     dir |-> c.cwd, file |-> output_file(c.language)]

\* The modules of the registry after the compiler has written `file` in `dir`
write_module(m, dir, file) ==
    [k \in DOMAIN m |-> IF k[1] = dir /\ search_name(k[2]) = file THEN "good" ELSE m[k]]

\* The other files after the compiler has written `file` in `dir`
write_other(fs, dir, file) ==
    IF \E n \in Langs : search_name(n) = file THEN fs ELSE fs \cup {<<dir, file>>}

InitCompile ==
    /\ cmd \in [name : {"compile-grammar"}, language : Langs, out_dir : Dirs, cwd : Dirs,
                debug : BOOLEAN, opt_level : OptLevels, target : {"host", "other"}]
    /\ include = <<cmd.out_dir>>
    /\ modules = [k \in Dirs \X Langs |-> "absent"]
    /\ contents \in [parser : BOOLEAN, scanner : Scanners, other : {{}}]
    /\ addr = << >>
    /\ roots = << >>
    /\ walk = << >>
    /\ command = NoCommand
    /\ pc = "compile"
    /\ paths = << >>
    /\ langsLeft = {}
    /\ InitLoaderState
    /\ task = << >>
    /\ ingestor = << >>
    /\ imported = << >>
    /\ result = NoResult

\* CompileGrammar::run. `status` is the exit status of the compiler.
Compile(status) ==
    /\ cmd.name = "compile-grammar"
    /\ pc = "compile"
    /\ IF ~contents.parser
       THEN /\ result' = [kind |-> "NoParser", path |-> 0]
            /\ pc' = "report"
            /\ UNCHANGED <<command, modules, contents>>
       ELSE IF contents.scanner = "none"
       THEN /\ result' = [kind |-> "NoScanner", path |-> 0]
            /\ pc' = "report"
            /\ UNCHANGED <<command, modules, contents>>
       ELSE /\ command' = compiler_command(cmd, contents.scanner)
            /\ IF status = 0
               THEN /\ modules' = write_module(modules, command'.dir, command'.file)
                    /\ contents' = [contents EXCEPT
                                      !.other = write_other(@, command'.dir, command'.file)]
                    /\ result' = [kind |-> "Ok", path |-> 0]
                    /\ pc' = "compiled"
               ELSE /\ result' = [kind |-> "CompilerFailed", path |-> 0]
                    /\ pc' = "report"
                    /\ UNCHANGED <<modules, contents>>
    /\ UNCHANGED <<cmd, include, addr, roots, walk, paths, langsLeft, loaderVars, handle, calls,
                   task, ingestor, imported>>

\* Loader::preload of the compiled language, with -i <out-dir>
CompiledPreload ==
    /\ cmd.name = "compile-grammar"
    /\ pc = "compiled"
    /\ LET r == preload(cmd.language)
       IN  /\ ApplyPreload(r)
           /\ lastCall' = [name |-> cmd.language, res |-> r.res, find |-> r.find,
                           resolved |-> cmd.language \in languages]
    /\ pc' = "preloaded"
    /\ calls' = calls + 1
    /\ UNCHANGED <<envVars, command, walk, paths, langsLeft, handle, task, ingestor, imported,
                   result>>

NextCompile ==
    \/ \E status \in {0, 1} : Compile(status)
    \/ CompiledPreload

SpecCompile == InitCompile /\ [][NextCompile]_vars

\* C22: after compile-grammar has succeeded for a name with an out-dir, the
\* out-dir holds a module under the name the registry searches for, so that a
\* preload of the name with the out-dir in the include list finds it; and the
\* compiler was run with the out-dir, the optimization level and the debug
\* setting of the command line.
C22_BuildRoundTrip ==
    cmd.name = "compile-grammar" =>
        /\ pc \in {"compiled", "preloaded"} =>
             /\ candidate_exists(cmd.out_dir, cmd.language)
             /\ command.dir = cmd.out_dir
             /\ command.file = search_name(cmd.language)
             /\ command.opt_level = cmd.opt_level
             /\ command.debug = cmd.debug
        /\ pc = "preloaded" => lastCall.res = "Ok"

PreloadErrors == {"GrammarNotFound", "ModuleLoadError", "SymbolResolutionError"}

\* After every call: a name with a handle has an open module, and the name of
\* a preload that returned an error has no handle.
HandlesHaveModules ==
    /\ languages \subseteq DOMAIN grammars
    /\ lastCall.res \in PreloadErrors => get(lastCall.name) = NoLang
    /\ lastCall.res = "SymbolResolutionError" =>
         lastCall.name \in DOMAIN grammars /\ lastCall.name \notin languages

\* A preload of the name whose symbol resolution has just failed does not
\* search for the module or open it again.
RetryKeepsModule ==
    (/\ lastCall.res = "SymbolResolutionError"
     /\ calls' # calls
     /\ lastCall'.res # "find"
     /\ lastCall'.name = lastCall.name) =>
        /\ opens' = opens
        /\ loaded' = loaded
        /\ grammars' = grammars
        /\ ~lastCall'.find.called

\* C23: after any sequence of preload calls every name with a cached handle
\* has a cached open module, a preload that returned an error leaves get of
\* its name returning None, a failed symbol resolution leaves no handle, and a
\* retry after it does not open the module a second time.
C23_CachesConsistent == []HandlesHaveModules /\ [][RetryKeepsModule]_vars

\* A retry of a preload whose symbol resolution had failed has returned, with
\* the module of the name opened once and another name resolved
C23_Witness ==
    /\ cmd.name = "loader"
    /\ lastCall.res = "SymbolResolutionError"
    /\ ~lastCall.find.called
    /\ opens[lastCall.name] = 1
    /\ languages # {}

====
